---- MODULE Spec2Model ----
(***************************************************************************)
(* Tangerino punch sync (src/app.py): the paginated fetch loop             *)
(* (fetch_punches), the button handler that drives it and persists its     *)
(* result (perform_fetch), and the SQLite store (save_punches,             *)
(* set_metadata, get_metadata).                                            *)
(***************************************************************************)
EXTENDS Integers, Sequences, FiniteSets, TLC

(***************************************************************************)
(* Bounds of the model.                                                    *)
(***************************************************************************)
MaxClock == 2
MaxSyncs == 2
MaxPagesInput == 2
MaxPageLen == 1
MaxMerged == 3
MaxLastUpdate == 1

(***************************************************************************)
(* JSON / Python values.  A value is a tagged pair: None (Python None, a   *)
(* missing dict key as seen through dict.get, SQL NULL), an integer, a     *)
(* string (v names the string), or an object {"id": v}.                    *)
(***************************************************************************)
None == [t |-> "none", v |-> 0]
JInt(n) == [t |-> "int", v |-> n]
JStr(n) == [t |-> "str", v |-> n]
JObj(n) == [t |-> "obj", v |-> n]

\* Python truthiness of a value: None and 0 are falsy.
Truthy(x) == ~(x = None \/ x = JInt(0))

\* A punch record as parsed from the upstream JSON (a dict); a field that
\* is None stands for a key the dict does not carry.
Rec(id, employeeId, employee, date, status) ==
    [id |-> id, employeeId |-> employeeId, employee |-> employee,
     date |-> date, status |-> status, lastModifiedDate |-> None]

KeyOrder == <<"id", "employeeId", "employee", "date", "status", "lastModifiedDate">>

\* json.dumps(p): the present keys of the dict, in order, with their values.
json_dumps(p) ==
    LET ks == SelectSeq(KeyOrder, LAMBDA k : p[k] # None)
    IN  [i \in 1..Len(ks) |-> <<ks[i], p[ks[i]]>>]

\* str(int): the decimal digits of a natural number.
RECURSIVE str(_)
str(n) == IF n < 10 THEN <<n>> ELSE str(n \div 10) \o <<n % 10>>

\* int(str): the number a digit string denotes.
RECURSIVE int(_)
int(s) == IF Len(s) = 0 THEN 0
          ELSE 10 * int(SubSeq(s, 1, Len(s) - 1)) + s[Len(s)]

(***************************************************************************)
(* The records the upstream serves in this model.                          *)
(***************************************************************************)
RecA1 == Rec(JInt(1), JInt(5), None, JStr(1), JStr(3))
RecA2 == Rec(JInt(1), None, JObj(7), JStr(2), None)
RecB == Rec(JInt(2), JInt(0), JObj(7), JStr(1), None)
RecNoId == Rec(None, None, None, JStr(1), None)
RecBadId == Rec(JStr(9), None, None, JStr(2), None)
RecBadEmp == Rec(JInt(2), None, JStr(8), JStr(2), None)

Records == {RecA1, RecA2, RecB, RecNoId, RecBadId, RecBadEmp}

\* The records that appear under the content key of a page.
PageRecords == {RecA1, RecA2, RecNoId, RecBadId, RecBadEmp}

\* Sequences over S of length at most n.
SeqsUpTo(S, n) == UNION {[1..k -> S] : k \in 0..n}

(***************************************************************************)
(* Store: the punches table and the metadata table (init_db).              *)
(***************************************************************************)
VARIABLES
    punches,        \* table punches: a set of rows
    metadata,       \* table metadata: a set of [key, value] rows
    now,            \* wall clock, int(time.time() * 1000)
    pc,             \* position of the button handler: idle, fetch, fetched, saved
    use_full,       \* perform_fetch argument
    params,         \* query parameters of the running sync
    max_pages,      \* sidebar input
    all_punches,    \* fetch_punches accumulator
    page,           \* fetch_punches page index
    last_meta,      \* fetch_punches last_meta
    saved_count,    \* return value of save_punches in perform_fetch
    outcome,        \* how the last handler run ended: none, returned, raised
    store_before,   \* punches table when the running sync started
    meta_before,    \* metadata table when the running sync started
    n_fetches,      \* number of requests.get calls of the running sync
    last_req,       \* query parameters of the last requests.get call
    syncs,          \* number of syncs started
    end_now,        \* wall clock when the last sync returned
    obs,            \* what the upstream served to the running fetch_punches call
    last_batch,     \* argument of the last direct save_punches call
    prev_table,     \* punches table before the first call with last_batch
    once_table,     \* punches table after the first call with last_batch
    replayed,       \* last_batch has been saved a second time
    merged,         \* number of records passed to direct save_punches calls
    lastMerged      \* per id, the last record with that id whose insert succeeded

vars == <<punches, metadata, now, pc, use_full, params, max_pages, all_punches,
          page, last_meta, saved_count, outcome, store_before, meta_before,
          n_fetches, last_req, syncs, end_now, obs, last_batch, prev_table,
          once_table,
          replayed, merged, lastMerged>>

syncVars == <<pc, use_full, params, max_pages, all_punches, page, last_meta,
              saved_count, outcome, store_before, meta_before, n_fetches,
              last_req, syncs, end_now, obs>>

upsertVars == <<last_batch, prev_table, once_table, replayed, merged, lastMerged>>

\* line 103: p.get("employeeId") or (p.get("employee") or {}).get("id")
\* raises AttributeError when the employee value is truthy and not a dict.
EmployeeRaises(p) ==
    ~Truthy(p.employeeId) /\ Truthy(p.employee) /\ p.employee.t # "obj"

emp(p) ==
    IF Truthy(p.employeeId) THEN p.employeeId
    ELSE IF Truthy(p.employee) THEN JInt(p.employee.v)
    ELSE None

\* cur.execute raises (datatype mismatch) when the id is a non-numeric
\* string: the column is INTEGER PRIMARY KEY.
ExecuteRaises(p) == p.id.t = "str"

InsertRaises(p) == EmployeeRaises(p) \/ ExecuteRaises(p)

\* INTEGER PRIMARY KEY given NULL: SQLite assigns max(rowid) + 1.
MaxRowid(table) ==
    IF table = {} THEN 0
    ELSE CHOOSE m \in {r.id : r \in table} : \A r \in table : r.id <= m

NewRowid(table) == MaxRowid(table) + 1

MakeRow(table, p, now_ms) ==
    [id |-> IF p.id = None THEN NewRowid(table) ELSE p.id.v,
     employeeId |-> emp(p),
     date |-> p.date,
     status |-> p.status,
     lastModifiedDate |-> p.lastModifiedDate,
     raw_json |-> json_dumps(p),
     saved_at |-> now_ms]

\* INSERT OR IGNORE: a row whose primary key is taken is dropped.
InsertOrIgnore(table, row) ==
    IF \E r \in table : r.id = row.id THEN table ELSE table \cup {row}

\* INSERT OR REPLACE INTO punches: the row with the same primary key, if
\* any, is deleted and the new row inserted.
InsertOrReplace(table, row) == {r \in table : r.id # row.id} \cup {row}

\* The for loop of save_punches from record i on; acc carries the table
\* and the saved counter.  A record whose insert raises is logged and
\* skipped.
RECURSIVE save_loop(_, _, _, _)
save_loop(acc, batch, i, now_ms) ==
    IF i > Len(batch) THEN acc
    ELSE IF InsertRaises(batch[i]) THEN save_loop(acc, batch, i + 1, now_ms)
    ELSE save_loop([table |-> InsertOrReplace(acc.table,
                                  MakeRow(acc.table, batch[i], now_ms)),
                    saved |-> acc.saved + 1],
                   batch, i + 1, now_ms)

\* save_punches(conn, punches): the loop, then conn.commit().
save_punches(table, batch, now_ms) ==
    save_loop([table |-> table, saved |-> 0], batch, 1, now_ms)

\* set_metadata: INSERT OR REPLACE INTO metadata (key, value).
set_metadata(table, key, value) ==
    {r \in table : r.key # key} \cup {[key |-> key, value |-> value]}

\* get_metadata returns the value, or None when there is no row.
has_metadata(table, key) == \E r \in table : r.key = key

get_metadata(table, key) == (CHOOSE r \in table : r.key = key).value

(***************************************************************************)
(* Initial state: a fresh database, the handler idle.                      *)
(***************************************************************************)
NoMeta == [error |-> "", status_code |-> 0, json_parse_error |-> FALSE,
           finished_reason |-> "", totalPages |-> 0]

NoReq == [lastUpdate |-> 0, size |-> 0, page |-> 0 - 1]

NoRec == Rec(None, None, None, None, None)

Ids == 1..2

\* Nothing served yet.  kind is the kind of the last response; last,
\* totalPages and content are those of the last object body; pages holds,
\* per object body, the records taken from it; pattern says that every
\* page so far carried a non-empty list under content with last = false on
\* all but the latest, and served is then the concatenation of these
\* lists; nonstop says that every page so far was an object body with at
\* least one record and without last = true.
NoObs == [kind |-> "none", last |-> "absent", totalPages |-> 0,
          content |-> [t |-> "none", l |-> <<>>], pages |-> <<>>,
          pattern |-> TRUE, served |-> <<>>, nonstop |-> TRUE]

InitStore ==
    /\ punches = {}
    /\ metadata = {}
    /\ now = 1

InitSync ==
    /\ pc = "idle"
    /\ use_full = TRUE
    /\ params = [lastUpdate |-> 0, size |-> 0]
    /\ max_pages = 1
    /\ all_punches = <<>>
    /\ page = 0
    /\ last_meta = NoMeta
    /\ saved_count = 0
    /\ outcome = "none"
    /\ store_before = {}
    /\ meta_before = {}
    /\ n_fetches = 0
    /\ last_req = NoReq
    /\ syncs = 0
    /\ end_now = 0
    /\ obs = NoObs

InitUpsert ==
    /\ last_batch = <<>>
    /\ prev_table = {}
    /\ once_table = {}
    /\ replayed = FALSE
    /\ merged = 0
    /\ lastMerged = [i \in Ids |-> NoRec]

Init == InitStore /\ InitSync /\ InitUpsert

\* The wall clock advances.
Tick ==
    /\ now < MaxClock
    /\ now' = now + 1
    /\ UNCHANGED <<punches, metadata, syncVars, upsertVars>>

(***************************************************************************)
(* Direct use of the store: save_punches called with a batch, and called   *)
(* again with the same batch.                                              *)
(***************************************************************************)
\* The last record of batch with id i whose insert succeeded, else prev.
RECURSIVE LastMergedIn(_, _, _)
LastMergedIn(batch, i, prev) ==
    IF Len(batch) = 0 THEN prev
    ELSE LET p == batch[Len(batch)]
         IN  IF p.id = JInt(i) /\ ~InsertRaises(p) THEN p
             ELSE LastMergedIn(SubSeq(batch, 1, Len(batch) - 1), i, prev)

UpsertBatch ==
    /\ \E batch \in SeqsUpTo(Records, MaxMerged - merged) :
          /\ merged' = merged + Len(batch)
          /\ punches' = save_punches(punches, batch, now).table
          /\ last_batch' = batch
          /\ lastMerged' = [i \in Ids |-> LastMergedIn(batch, i, lastMerged[i])]
    /\ prev_table' = punches
    /\ once_table' = punches'
    /\ replayed' = FALSE
    /\ UNCHANGED <<metadata, now, syncVars>>

ReplayBatch ==
    /\ last_batch # <<>>
    /\ ~replayed
    /\ punches' = save_punches(punches, last_batch, now).table
    /\ lastMerged' = [i \in Ids |-> LastMergedIn(last_batch, i, lastMerged[i])]
    /\ replayed' = TRUE
    /\ UNCHANGED <<metadata, now, syncVars, last_batch, prev_table, once_table, merged>>

NextUpsert == UpsertBatch \/ ReplayBatch \/ Tick

SpecUpsert == Init /\ [][NextUpsert]_vars

(***************************************************************************)
(* Upstream responses.  A JSON object body carries the four record keys,   *)
(* the last flag and totalPages; a key holds a list, a non-list value, or  *)
(* is missing (None).                                                      *)
(***************************************************************************)
NoList == [t |-> "none", l |-> <<>>]
NonList == [t |-> "str", l |-> <<>>]
JList(s) == [t |-> "list", l |-> s]

PageLists == SeqsUpTo(PageRecords, MaxPageLen)

AltLists == {<<>>, <<RecA2>>}

\* Bodies with a list under content (items may be present too), and
\* bodies without one, with every mix of the other record keys.
Bodies ==
    [content : {JList(s) : s \in PageLists},
     items : {NoList, JList(<<RecA2>>)},
     data : {NoList},
     result : {NoList},
     last : {"absent", "true", "false"},
     totalPages : {0, 1}]
    \cup
    [content : {NoList, NonList},
     items : {NoList, NonList} \cup {JList(s) : s \in AltLists},
     data : {NoList, JList(<<RecB>>)},
     result : {NoList, JList(<<RecNoId>>)},
     last : {"absent", "true", "false"},
     totalPages : {0, 1}]

\* HTTP status codes the upstream answers with; resp.ok is status < 400.
StatusCodes == {200, 404, 500}

ok(status) == status < 400

\* Sidebar inputs: page size (number_input, min 10, step 10).
PageSizes == {10, 200}

\* perform_fetch shows at most this many records in the preview table.
PreviewLimit == 200

(***************************************************************************)
(* perform_fetch(use_full): lines 373-384, the parameters of the sync.     *)
(***************************************************************************)
perform_fetch(full, last_update_param, page_size, max_pages_input) ==
    /\ pc = "idle"
    /\ syncs < MaxSyncs
    /\ pc' = "fetch"
    /\ use_full' = full
    /\ params' = [lastUpdate |-> IF full THEN 0 ELSE last_update_param,
                  size |-> page_size]
    /\ max_pages' = max_pages_input
    /\ all_punches' = <<>>
    /\ page' = 0
    /\ last_meta' = NoMeta
    /\ saved_count' = 0
    /\ outcome' = "none"
    /\ store_before' = punches
    /\ meta_before' = metadata
    /\ n_fetches' = 0
    /\ last_req' = NoReq
    /\ syncs' = syncs + 1
    /\ obs' = NoObs
    /\ UNCHANGED <<punches, metadata, now, end_now, upsertVars>>

\* Button "Sync incremental": perform_fetch(use_full=False).
SyncIncremental ==
    \E lu \in 0..MaxLastUpdate, sz \in PageSizes, mp \in 1..MaxPagesInput :
        perform_fetch(FALSE, lu, sz, mp)

\* Button "Force full sync": perform_fetch(use_full=True).
SyncFull ==
    \E lu \in 0..MaxLastUpdate, sz \in PageSizes, mp \in 1..MaxPagesInput :
        perform_fetch(TRUE, lu, sz, mp)

(***************************************************************************)
(* fetch_punches: one iteration of the while loop per action.              *)
(***************************************************************************)
\* The request of this iteration: params with params["page"] = page.
Request == [lastUpdate |-> params.lastUpdate, size |-> params.size, page |-> page]

SendRequest ==
    /\ pc = "fetch"
    /\ n_fetches' = n_fetches + 1
    /\ last_req' = Request

fetchFrame == <<punches, metadata, now, use_full, params, max_pages,
                saved_count, store_before, meta_before, syncs, upsertVars>>

\* The response was not an object body of the given kind.
Failed(kind) ==
    [obs EXCEPT !.kind = kind, !.last = "absent", !.totalPages = 0,
                !.content = NoObs.content, !.pattern = FALSE,
                !.served = <<>>, !.nonstop = FALSE]

\* requests.get raises: return all_punches with error = network_error.
FetchNetworkError ==
    /\ SendRequest
    /\ last_meta' = [NoMeta EXCEPT !.error = "network_error"]
    /\ obs' = Failed("network_error")
    /\ pc' = "fetched"
    /\ UNCHANGED <<all_punches, page, outcome, end_now>>
    /\ UNCHANGED fetchFrame

\* not resp.ok: return all_punches with the status code.
FetchHttpError ==
    /\ SendRequest
    /\ \E status \in StatusCodes :
          /\ ~ok(status)
          /\ last_meta' = [NoMeta EXCEPT !.status_code = status]
    /\ obs' = Failed("http_error")
    /\ pc' = "fetched"
    /\ UNCHANGED <<all_punches, page, outcome, end_now>>
    /\ UNCHANGED fetchFrame

\* resp.json() raises: return all_punches with json_parse_error.
FetchParseError ==
    /\ SendRequest
    /\ \E status \in StatusCodes :
          /\ ok(status)
          /\ last_meta' = [NoMeta EXCEPT !.status_code = status,
                                         !.json_parse_error = TRUE]
    /\ obs' = Failed("invalid_json")
    /\ pc' = "fetched"
    /\ UNCHANGED <<all_punches, page, outcome, end_now>>
    /\ UNCHANGED fetchFrame

\* The body is valid JSON but not an object (a list, a string, a number,
\* null): data.get("content") raises AttributeError, which nothing
\* catches; the handler run ends with the exception.
FetchNonObject ==
    /\ SendRequest
    /\ \E status \in StatusCodes :
          /\ ok(status)
          /\ last_meta' = [NoMeta EXCEPT !.status_code = status]
    /\ \E kind \in {"list", "scalar"} : obs' = Failed(kind)
    /\ pc' = "idle"
    /\ outcome' = "raised"
    /\ UNCHANGED <<all_punches, page, end_now>>
    /\ UNCHANGED fetchFrame

\* The records taken from an object body, with items looked at before
\* content.
Extract_ItemsFirst(data) ==
    IF data.items.t = "list" THEN data.items.l
    ELSE IF data.content.t = "list" THEN data.content.l
    ELSE IF data.data.t = "list" THEN data.data.l
    ELSE IF data.result.t = "list" THEN data.result.l
    ELSE <<>>

\* Lines 214-228: the records taken from an object body.
Extract(data) ==
    IF data.content.t = "list" THEN data.content.l
    ELSE IF data.content.t = "none"
    THEN IF data.items.t = "list" THEN data.items.l
         ELSE IF data.data.t = "list" THEN data.data.l
         ELSE IF data.result.t = "list" THEN data.result.l
         ELSE <<>>
    ELSE <<>>

\* The stop rules with the empty page looked at before the last flag.
FinishedReason_EmptyFirst(data, pg, mp) ==
    IF data.content.t = "list" /\ Len(data.content.l) = 0 THEN "empty_content"
    ELSE IF data.last = "true" THEN "last_flag_true"
    ELSE IF pg + 1 >= mp THEN "max_pages_reached"
    ELSE ""

\* The stop rules with page > max_pages as the bound.
FinishedReason_OffByOne(data, pg, mp) ==
    IF data.last = "true" THEN "last_flag_true"
    ELSE IF data.content.t = "list" /\ Len(data.content.l) = 0 THEN "empty_content"
    ELSE IF pg + 1 > mp THEN "max_pages_reached"
    ELSE ""

\* Lines 235-248: why the loop stops after this page, "" to go on.
FinishedReason(data, pg, mp) ==
    IF data.last = "true" THEN "last_flag_true"
    ELSE IF data.content.t = "list" /\ Len(data.content.l) = 0 THEN "empty_content"
    ELSE IF pg + 1 >= mp THEN "max_pages_reached"
    ELSE ""

\* all_punches.extend(records), with records dropped that are already there.
RECURSIVE extend_dedup(_, _)
extend_dedup(all, records) ==
    IF Len(records) = 0 THEN all
    ELSE IF \E i \in 1..Len(all) : all[i] = Head(records)
    THEN extend_dedup(all, Tail(records))
    ELSE extend_dedup(Append(all, Head(records)), Tail(records))

\* all_punches.extend(records).
extend(all, records) == all \o records

\* What an object body adds to the observations.
Served(data) ==
    LET fits == /\ obs.pattern
                /\ obs.kind = "none" \/ obs.last = "false"
                /\ data.content.t = "list"
                /\ Len(data.content.l) > 0
                /\ data.last # "absent"
    IN  [kind |-> "object", last |-> data.last, totalPages |-> data.totalPages,
         content |-> data.content,
         pages |-> Append(obs.pages, Extract(data)),
         pattern |-> fits,
         served |-> IF fits THEN obs.served \o data.content.l ELSE <<>>,
         nonstop |-> /\ obs.nonstop
                     /\ Len(Extract(data)) > 0
                     /\ data.last # "true"]

\* The body is a JSON object, one of bodies.
FetchOkFrom(bodies) ==
    /\ SendRequest
    /\ \E status \in StatusCodes, data \in bodies :
          LET reason == FinishedReason(data, page, max_pages)
          IN  /\ ok(status)
              /\ all_punches' = extend(all_punches, Extract(data))
              /\ last_meta' = [NoMeta EXCEPT !.status_code = status,
                                             !.totalPages = data.totalPages,
                                             !.finished_reason = reason]
              /\ page' = IF reason \in {"last_flag_true", "empty_content"}
                         THEN page ELSE page + 1
              /\ pc' = IF reason = "" THEN "fetch" ELSE "fetched"
              /\ obs' = Served(data)
    /\ UNCHANGED <<outcome, end_now>>
    /\ UNCHANGED fetchFrame

FetchOk == FetchOkFrom(Bodies)

(***************************************************************************)
(* perform_fetch after fetch_punches returned: lines 386-443.              *)
(***************************************************************************)
\* Lines 425-429: the preview table reads (p.get("employee") or {}).get("name")
\* of the first records; a truthy employee that is not a dict raises.
PreviewRaises(batch) ==
    \E i \in 1..Len(batch) :
        /\ i <= PreviewLimit
        /\ Truthy(batch[i].employee)
        /\ batch[i].employee.t # "obj"

afterFrame == <<now, use_full, params, max_pages, all_punches, page, last_meta,
                store_before, meta_before, n_fetches, last_req, syncs, obs,
                upsertVars>>

PreviewRaise ==
    /\ pc = "fetched"
    /\ PreviewRaises(all_punches)
    /\ pc' = "idle"
    /\ outcome' = "raised"
    /\ UNCHANGED <<punches, metadata, saved_count, end_now>>
    /\ UNCHANGED afterFrame

\* Line 437 false: nothing to save, return.
ReturnEmpty ==
    /\ pc = "fetched"
    /\ ~PreviewRaises(all_punches)
    /\ all_punches = <<>>
    /\ pc' = "idle"
    /\ outcome' = "returned"
    /\ end_now' = now
    /\ UNCHANGED <<punches, metadata, saved_count>>
    /\ UNCHANGED afterFrame

\* Lines 437-438: saved_count = save_punches(conn, all_punches).
SavePunches ==
    /\ pc = "fetched"
    /\ ~PreviewRaises(all_punches)
    /\ all_punches # <<>>
    /\ LET res == save_punches(punches, all_punches, now)
       IN  /\ punches' = res.table
           /\ saved_count' = res.saved
    /\ pc' = "saved"
    /\ UNCHANGED <<metadata, outcome, end_now>>
    /\ UNCHANGED afterFrame

\* Line 439: set_metadata(conn, "last_sync", str(int(time.time() * 1000))).
SetLastSync ==
    /\ pc = "saved"
    /\ metadata' = set_metadata(metadata, "last_sync", str(now))
    /\ pc' = "idle"
    /\ outcome' = "returned"
    /\ end_now' = now
    /\ UNCHANGED <<punches, saved_count>>
    /\ UNCHANGED afterFrame

Next ==
    \/ Tick
    \/ SyncIncremental
    \/ SyncFull
    \/ FetchNetworkError
    \/ FetchHttpError
    \/ FetchParseError
    \/ FetchNonObject
    \/ FetchOk
    \/ PreviewRaise
    \/ ReturnEmpty
    \/ SavePunches
    \/ SetLastSync

Spec == Init /\ [][Next]_vars

(***************************************************************************)
(* fetch_punches called on its own: one call, with any max_pages.          *)
(***************************************************************************)
FetchRecords == {RecA1, RecA2}

FetchLists == SeqsUpTo(FetchRecords, MaxPageLen)

FetchBodies ==
    [content : {JList(s) : s \in FetchLists},
     items : {NoList, JList(<<RecA2>>)},
     data : {NoList},
     result : {NoList},
     last : {"absent", "true", "false"},
     totalPages : {0, 1}]
    \cup
    [content : {NoList, NonList},
     items : {NoList, NonList} \cup {JList(s) : s \in AltLists},
     data : {NoList, JList(<<RecA1>>)},
     result : {NoList, JList(<<RecA2>>)},
     last : {"absent", "true", "false"},
     totalPages : {0, 1}]

\* Lines 137-163: fetch_punches(base_url, endpoint, token, params,
\* page_size, max_pages) up to the while loop.
StartFetch ==
    /\ pc = "idle"
    /\ syncs = 0
    /\ \E lu \in 0..MaxLastUpdate, sz \in PageSizes, mp \in 0..MaxPagesInput :
          /\ params' = [lastUpdate |-> lu, size |-> sz]
          /\ max_pages' = mp
    /\ pc' = "fetch"
    /\ all_punches' = <<>>
    /\ page' = 0
    /\ last_meta' = NoMeta
    /\ n_fetches' = 0
    /\ last_req' = NoReq
    /\ syncs' = syncs + 1
    /\ obs' = NoObs
    /\ UNCHANGED <<punches, metadata, now, use_full, saved_count, outcome,
                   store_before, meta_before, end_now, upsertVars>>

FetchOkPage == FetchOkFrom(FetchBodies)

NextFetch ==
    \/ StartFetch
    \/ FetchNetworkError
    \/ FetchHttpError
    \/ FetchParseError
    \/ FetchNonObject
    \/ FetchOkPage

SpecFetch == Init /\ [][NextFetch]_vars

(***************************************************************************)
(* Vocabulary of the properties.                                           *)
(***************************************************************************)
\* How fetch_punches ended, read off last_meta.
Reason(m) ==
    IF m.error = "network_error" THEN "network_error"
    ELSE IF m.status_code # 0 /\ ~ok(m.status_code) THEN "http_error"
    ELSE IF m.json_parse_error THEN "parse_error"
    ELSE m.finished_reason

AbortReasons == {"network_error", "http_error", "parse_error"}

NormalReasons == {"last_flag_true", "empty_content", "max_pages_reached"}

\* The handler has returned from a sync.
SyncReturned == pc = "idle" /\ outcome = "returned"

HasWatermark(m) == has_metadata(m, "last_sync")

Watermark(m) == int(get_metadata(m, "last_sync"))

\* The record of batch that an upsert by id leaves for batch[i]: the last
\* record of the batch with the same id (batch[i] itself when it has none).
LastWithSameId(batch, i) ==
    IF batch[i].id = None THEN batch[i]
    ELSE LET js == {j \in i..Len(batch) : batch[j].id = batch[i].id}
         IN  batch[CHOOSE j \in js : \A k \in js : k <= j]

\* Every record of batch is visible in table.
Upserted(batch, table) ==
    \A i \in 1..Len(batch) :
        \E r \in table : r.raw_json = json_dumps(LastWithSameId(batch, i))

\* A table without the saved_at column.
RecordFields(table) ==
    {[id |-> r.id, employeeId |-> r.employeeId, date |-> r.date,
      status |-> r.status, lastModifiedDate |-> r.lastModifiedDate,
      raw_json |-> r.raw_json] : r \in table}

(***************************************************************************)
(* Properties.                                                             *)
(***************************************************************************)
\* C1: a sync that ended by a network error, a non-success HTTP status or
\* an unparseable body leaves the stored watermark (metadata last_sync)
\* as it was when the sync started.
C1_NoAdvanceOnAbort ==
    (SyncReturned /\ Reason(last_meta) \in AbortReasons)
        => metadata = meta_before

\* C2: a sync that aborted leaves the punches table unchanged; the records
\* of the pages fetched before the abort are not merged.
C2_NoMergeOnAbort ==
    (SyncReturned /\ Reason(last_meta) \in AbortReasons)
        => punches = store_before

\* C3: after a sync that terminated normally, also with zero records,
\* every accumulated record is in the store and the watermark is the wall
\* clock at the end of the sync.
C3_NormalEndMergesAndAdvances ==
    (SyncReturned /\ Reason(last_meta) \in NormalReasons)
        => /\ Upserted(all_punches, punches)
           /\ HasWatermark(metadata)
           /\ Watermark(metadata) = end_now

\* C4: the watermark is written only after the merge of the same sync, and
\* only when every accumulated record is in the store: no record's insert
\* failed.
C4_WatermarkOnlyAfterFullMerge ==
    [][metadata' # metadata
         => /\ pc = "saved"
            /\ saved_count = Len(all_punches)
            /\ Upserted(all_punches, punches)]_vars

\* C5: an incremental sync started on a store without a watermark issues
\* no HTTP request and leaves the store unchanged.
C5_IncrementalNeedsWatermark ==
    (syncs > 0 /\ ~use_full /\ ~HasWatermark(meta_before))
        => /\ n_fetches = 0
           /\ punches = store_before
           /\ metadata = meta_before

\* C6: every page request carries lastUpdate = 0 in a full sync and the
\* watermark stored at sync start in an incremental sync.
C6_LowerBoundFromStore ==
    n_fetches > 0
        => IF use_full THEN last_req.lastUpdate = 0
           ELSE HasWatermark(meta_before)
                    => last_req.lastUpdate = Watermark(meta_before)

\* C7: the watermark never decreases, and it changes only as the last step
\* of a sync that terminated normally.
C7_WatermarkMonotonic ==
    [][metadata' # metadata
         => /\ pc = "saved"
            /\ Reason(last_meta) \in NormalReasons
            /\ HasWatermark(metadata')
            /\ HasWatermark(metadata)
                   => Watermark(metadata') >= Watermark(metadata)]_vars

\* C8: saving the same batch twice leaves the same rows, with the same
\* record fields, as saving it once.
C8_UpsertIdempotent ==
    replayed => RecordFields(punches) = RecordFields(once_table)

\* C9: the table holds at most one row per id, and the row of an id
\* carries the fields of the record with that id that was merged last.
C9_OneRowPerIdLastWins ==
    /\ \A r1, r2 \in punches : r1.id = r2.id => r1 = r2
    /\ \A i \in Ids :
          lastMerged[i] # NoRec
              => \E r \in punches :
                    /\ r.id = i
                    /\ r.employeeId = emp(lastMerged[i])
                    /\ r.date = lastMerged[i].date
                    /\ r.status = lastMerged[i].status
                    /\ r.lastModifiedDate = lastMerged[i].lastModifiedDate
                    /\ r.raw_json = json_dumps(lastMerged[i])

\* C9 witness: a batch with two records of id 1 was saved and the row of
\* id 1 carries the second one.
C9_Witness ==
    /\ last_batch = <<RecA1, RecA2>>
    /\ prev_table # {}
    /\ \E r \in punches : r.id = 1 /\ r.date = RecA2.date /\ r.status = None

\* C10: after save_punches every record of the batch is visible, or the
\* table is what it was before the call.
C10_UpsertAtomic ==
    (last_batch # <<>> /\ ~replayed)
        => \/ Upserted(last_batch, punches)
           \/ punches = prev_table

\* C11: an upstream that serves pages of non-empty record lists with
\* last = false on all but the final page and last = true on the final one
\* is fetched page by page until that final page (as long as max_pages
\* allows), the records accumulated are the concatenation of the pages'
\* lists, and the fetch ends with last_flag_true.
C11_PaginationExhaustion ==
    (obs.kind = "object" /\ obs.pattern)
        => /\ all_punches = obs.served
           /\ n_fetches = Len(obs.pages)
           /\ obs.last = "true"
                  => /\ pc = "fetched"
                     /\ last_meta.finished_reason = "last_flag_true"
           /\ (obs.last = "false" /\ n_fetches < max_pages) => pc = "fetch"

\* C11 witness: two pages, the second with last = true, both accumulated.
C11_Witness ==
    /\ obs.kind = "object"
    /\ obs.pattern
    /\ obs.last = "true"
    /\ n_fetches = 2
    /\ Len(all_punches) >= 2
    /\ pc = "fetched"

\* C12: when the upstream never signals a last page and never serves an
\* empty page, the sync ends after exactly max_pages fetches with
\* max_pages_reached and every accumulated record is in the store.
C12_SafetyBoundMerges ==
    (SyncReturned /\ obs.kind = "object" /\ obs.nonstop)
        => /\ n_fetches = max_pages
           /\ last_meta.finished_reason = "max_pages_reached"
           /\ Upserted(all_punches, punches)

\* The records taken from the last page.
LastPage == obs.pages[Len(obs.pages)]

\* The concatenation of a sequence of sequences.
RECURSIVE Concat(_)
Concat(ss) == IF Len(ss) = 0 THEN <<>> ELSE Head(ss) \o Concat(Tail(ss))

Max1(m) == IF m > 1 THEN m ELSE 1

\* C13: a parsed page that yields zero records and carries no last flag,
\* whatever its shape, stops the sync with the empty-page reason; no
\* further page is fetched.
C13_EmptyPageStops ==
    (obs.kind = "object" /\ obs.last = "absent" /\ Len(LastPage) = 0)
        => /\ pc = "fetched"
           /\ last_meta.finished_reason = "empty_content"

\* C14: a page with totalPages, no last flag and at least one record, whose
\* index + 1 reaches totalPages, stops the sync with page_count_reached.
C14_PageCountStops ==
    (/\ obs.kind = "object"
     /\ obs.last = "absent"
     /\ obs.totalPages > 0
     /\ Len(LastPage) > 0
     /\ last_req.page + 1 >= obs.totalPages)
        => /\ pc = "fetched"
           /\ last_meta.finished_reason = "page_count_reached"

\* C15: a parsed body, object or list, never makes the fetch raise, and an
\* object with a list under content yields that list.
C15_ExtractionNeverRaises ==
    obs.kind \in {"object", "list"}
        => /\ ~(pc = "idle" /\ outcome = "raised")
           /\ (obs.kind = "object" /\ obs.content.t = "list")
                  => LastPage = obs.content.l

\* C16: the stored employeeId is the top-level employeeId whenever the
\* record carries one (0 included), else the nested employee.id, else NULL.
C16_EmployeeIdResolution ==
    \A i \in Ids :
        lastMerged[i] # NoRec
            => \E r \in punches :
                  /\ r.id = i
                  /\ r.employeeId =
                        IF lastMerged[i].employeeId # None
                        THEN lastMerged[i].employeeId
                        ELSE IF lastMerged[i].employee.t = "obj"
                        THEN JInt(lastMerged[i].employee.v)
                        ELSE None

\* C17: a success response whose body is not valid JSON, or is JSON that
\* is neither an object nor a list, makes the fetch return what it has
\* accumulated, with a parse error, instead of raising.
C17_ParseErrorReturns ==
    obs.kind \in {"invalid_json", "scalar"}
        => /\ pc = "fetched"
           /\ outcome # "raised"
           /\ Reason(last_meta) = "parse_error"

\* C18: a page with last = true stops the sync after that page with
\* last_flag_true, whatever its records, totalPages and page index.
C18_LastFlagFirst ==
    (obs.kind = "object" /\ obs.last = "true")
        => /\ pc = "fetched"
           /\ last_meta.finished_reason = "last_flag_true"
           /\ page = last_req.page
           /\ n_fetches = last_req.page + 1

\* C18 witness: the last page is empty, reports totalPages = 1 and sits at
\* index max_pages - 1, so every other stop rule applies to it as well.
C18_Witness ==
    /\ obs.kind = "object"
    /\ obs.last = "true"
    /\ obs.content = JList(<<>>)
    /\ obs.totalPages = 1
    /\ last_req.page + 1 = max_pages
    /\ pc = "fetched"

\* C19: the k-th request of a fetch carries page index k and the filters
\* and size of the request before it, and the records accumulated are the
\* concatenation, in fetch order and with duplicates, of the records of
\* every page parsed so far.
C19_RequestsAndAccumulation ==
    [][n_fetches' = n_fetches + 1
         => /\ last_req'.page = n_fetches
            /\ last_req'.lastUpdate = params.lastUpdate
            /\ last_req'.size = params.size
            /\ n_fetches > 0
                   => /\ last_req'.lastUpdate = last_req.lastUpdate
                      /\ last_req'.size = last_req.size
            /\ all_punches' = Concat(obs'.pages)]_vars

\* C19 witness: two pages with the same record, both kept.
C19_Witness ==
    /\ pc = "fetched"
    /\ Len(obs.pages) = 2
    /\ last_req.page = 1
    /\ all_punches = <<RecA1, RecA1>>

\* C20: a fetch issues at least one and at most max(1, max_pages)
\* requests, and while it is still looping it has issued fewer.
C20_FetchCountBounded ==
    syncs > 0
        => /\ n_fetches <= Max1(max_pages)
           /\ pc = "fetch" => n_fetches < Max1(max_pages)
           /\ pc # "fetch" => n_fetches >= 1

\* C20 witness: the upstream never stopped the loop and max_pages did.
C20_Witness ==
    /\ pc = "fetched"
    /\ obs.nonstop
    /\ max_pages > 1
    /\ n_fetches = max_pages
    /\ last_meta.finished_reason = "max_pages_reached"

====
